---------------------------- MODULE Spec2Model ----------------------------
(***************************************************************************)
(* A model of the cantact userspace driver (driver/src/lib.rs): the        *)
(* bit-timing solver, the frame codec, and the Interface session with its  *)
(* receive threads.                                                        *)
(*                                                                         *)
(* TLC integers are 32-bit signed, so a Rust u32 is kept as two 16-bit     *)
(* halves [hi, lo] wherever its top bits matter, and an f32 is kept as a   *)
(* sign, a 24-bit significand m and an exponent e (value m * 2^e) with     *)
(* every operation rounded to nearest, ties to even, as IEEE 754 does.     *)
(***************************************************************************)
EXTENDS Integers, Sequences, FiniteSets, TLC

(***************************************************************************)
(* u32                                                                     *)
(***************************************************************************)
Half == 2^16

U32(n) == [hi |-> n \div Half, lo |-> n % Half]

U32Max == [hi |-> Half - 1, lo |-> Half - 1]

U32Lt(a, b) == a.hi < b.hi \/ (a.hi = b.hi /\ a.lo < b.lo)

U32Le(a, b) == a = b \/ U32Lt(a, b)

\* a - b modulo 2^32 (what a release build computes)
U32WrappingSub(a, b) ==
    LET borrow == IF a.lo < b.lo THEN 1 ELSE 0
    IN  [hi |-> (a.hi - b.hi - borrow) % Half, lo |-> (a.lo - b.lo) % Half]

RECURSIVE BitAnd16(_, _, _)
BitAnd16(a, b, n) ==
    IF n = 0 THEN 0
    ELSE (IF a % 2 = 1 /\ b % 2 = 1 THEN 1 ELSE 0) + 2 * BitAnd16(a \div 2, b \div 2, n - 1)

RECURSIVE BitOr16(_, _, _)
BitOr16(a, b, n) ==
    IF n = 0 THEN 0
    ELSE (IF a % 2 = 1 \/ b % 2 = 1 THEN 1 ELSE 0) + 2 * BitOr16(a \div 2, b \div 2, n - 1)

U32And(a, b) == [hi |-> BitAnd16(a.hi, b.hi, 16), lo |-> BitAnd16(a.lo, b.lo, 16)]

U32Or(a, b) == [hi |-> BitOr16(a.hi, b.hi, 16), lo |-> BitOr16(a.lo, b.lo, 16)]

(***************************************************************************)
(* f32                                                                     *)
(***************************************************************************)
MinSig == 2^23
MaxSig == 2^24

F32Zero == [cls |-> "fin", neg |-> FALSE, m |-> 0, e |-> 0]
F32Inf == [cls |-> "inf", neg |-> FALSE, m |-> 0, e |-> 0]
F32NaN == [cls |-> "nan", neg |-> FALSE, m |-> 0, e |-> 0]

\* the f32 nearest to (mm + d) * 2^ee, where 0 <= d < 1 and d > 0 iff sticky;
\* mm < 2^31, and mm >= 2^25 whenever sticky
RECURSIVE RoundPack(_, _, _, _)
RoundPack(neg, mm, sticky, ee) ==
    IF mm = 0 THEN F32Zero
    ELSE IF mm < MinSig THEN RoundPack(neg, 2 * mm, sticky, ee - 1)
    ELSE IF mm < MaxSig THEN [cls |-> "fin", neg |-> neg, m |-> mm, e |-> ee]
    ELSE IF mm >= 2 * MaxSig
         THEN RoundPack(neg, mm \div 2, sticky \/ mm % 2 = 1, ee + 1)
    ELSE LET q  == mm \div 2
             up == mm % 2 = 1 /\ (sticky \/ q % 2 = 1)
             r  == IF up THEN q + 1 ELSE q
         IN  IF r = MaxSig
             THEN [cls |-> "fin", neg |-> neg, m |-> MinSig, e |-> ee + 2]
             ELSE [cls |-> "fin", neg |-> neg, m |-> r, e |-> ee + 1]

\* `n as f32` for an integer 0 <= n < 2^31
F32FromInt(n) == RoundPack(FALSE, n, FALSE, 0)

\* `u as f32` for a u32
F32FromU32(u) ==
    IF u.hi < Half \div 2 THEN F32FromInt(u.hi * Half + u.lo)
    ELSE RoundPack(FALSE, u.hi * (Half \div 2) + u.lo \div 2, u.lo % 2 = 1, 1)

\* floor(r * 2^n / d) continued from the quotient bits q, with the remainder
RECURSIVE DivBits(_, _, _, _)
DivBits(r, d, n, q) ==
    IF n = 0 THEN [q |-> q, r |-> r]
    ELSE IF 2 * r >= d THEN DivBits(2 * r - d, d, n - 1, 2 * q + 1)
    ELSE DivBits(2 * r, d, n - 1, 2 * q)

F32Div(a, b) ==
    IF a.cls = "nan" \/ b.cls = "nan" THEN F32NaN
    ELSE IF a.cls = "inf"
         THEN IF b.cls = "inf" THEN F32NaN ELSE [F32Inf EXCEPT !.neg = (a.neg # b.neg)]
    ELSE IF b.cls = "inf" THEN [F32Zero EXCEPT !.neg = (a.neg # b.neg)]
    ELSE IF b.m = 0
         THEN IF a.m = 0 THEN F32NaN ELSE [F32Inf EXCEPT !.neg = (a.neg # b.neg)]
    ELSE IF a.m = 0 THEN [F32Zero EXCEPT !.neg = (a.neg # b.neg)]
    ELSE LET d == DivBits(a.m % b.m, b.m, 26, a.m \div b.m)
         IN  RoundPack(a.neg # b.neg, d.q, d.r # 0, a.e - b.e - 26)

\* finite operands only
F32Mul(a, b) ==
    IF a.m = 0 \/ b.m = 0 THEN [F32Zero EXCEPT !.neg = (a.neg # b.neg)]
    ELSE LET ah  == a.m \div 4096
             al  == a.m % 4096
             bh  == b.m \div 4096
             bl  == b.m % 4096
             low == al * bl
             u   == ah * bl + al * bh + low \div 4096
             mm  == ah * bh * 16 + u \div 256
             st  == u % 256 # 0 \/ low % 4096 # 0
         IN  RoundPack(a.neg # b.neg, mm, st, a.e + b.e + 20)

\* a - b for finite operands whose exponents differ by at most 6
F32Sub(a, b) ==
    IF a.m = 0 /\ b.m = 0 THEN F32Zero
    ELSE LET ee == IF a.m = 0 THEN b.e ELSE IF b.m = 0 THEN a.e
                   ELSE IF a.e < b.e THEN a.e ELSE b.e
             sa == IF a.m = 0 THEN 0 ELSE (IF a.neg THEN -1 ELSE 1) * a.m * 2^(a.e - ee)
             sb == IF b.m = 0 THEN 0 ELSE (IF b.neg THEN -1 ELSE 1) * b.m * 2^(b.e - ee)
             df == sa - sb
         IN  IF df = 0 THEN F32Zero
             ELSE IF df < 0 THEN RoundPack(TRUE, -df, FALSE, ee)
             ELSE RoundPack(FALSE, df, FALSE, ee)

F32Abs(a) == [a EXCEPT !.neg = FALSE]

\* f32::round: to the nearest integer, halves away from zero
F32Round(a) ==
    IF a.cls # "fin" \/ a.m = 0 \/ a.e >= 0 THEN a
    ELSE IF a.e < -24 THEN [F32Zero EXCEPT !.neg = a.neg]
    ELSE LET p  == 2^(-a.e)
             ip == a.m \div p
             r  == IF 2 * (a.m % p) >= p THEN ip + 1 ELSE ip
         IN  IF r = 0 THEN [F32Zero EXCEPT !.neg = a.neg]
             ELSE RoundPack(a.neg, r, FALSE, 0)

\* `a as u32` for an integer-valued or non-finite a: the cast saturates, NaN is 0
F32ToU32(a) ==
    IF a.cls = "nan" THEN U32(0)
    ELSE IF a.neg THEN U32(0)
    ELSE IF a.cls = "inf" THEN U32Max
    ELSE IF a.m = 0 THEN U32(0)
    ELSE IF a.e >= 9 THEN U32Max
    ELSE IF a.e >= 0
         THEN LET p == 2^(16 - a.e)
              IN  [hi |-> a.m \div p, lo |-> (a.m % p) * 2^(a.e)]
    ELSE IF a.e < -24 THEN U32(0)
    ELSE U32(a.m \div 2^(-a.e))

\* a > b for non-negative finite a and b
F32Gt(a, b) ==
    IF a.m = 0 THEN FALSE
    ELSE IF b.m = 0 THEN TRUE
    ELSE a.e > b.e \/ (a.e = b.e /\ a.m > b.m)

(***************************************************************************)
(* The bit-timing solver                                                   *)
(***************************************************************************)
max_brp == 32
min_seg1 == 3
max_seg1 == 18
min_seg2 == 2
max_seg2 == 8

\* 0.1f32 is 13421773 * 2^-27, the f32 nearest to one tenth
F32Tenth == [cls |-> "fin", neg |-> FALSE, m |-> 13421773, e |-> -27]
F32Half == [cls |-> "fin", neg |-> FALSE, m |-> MinSig, e |-> -24]

\* vec![0.0, 0.1 / 100.0, 0.5 / 100.0], as f32
tolerances ==
    << F32Zero, F32Div(F32Tenth, F32FromInt(100)), F32Div(F32Half, F32FromInt(100)) >>

\* the quantization error lost: every rounded quanta value passes as exact
QuantError_Zero(btq, btq_rounded) == F32Zero

\* ((btq / (btq_rounded as f32) - 1.0) * 10000.0).round() / 10000.0
QuantError(btq, btq_rounded) ==
    F32Div(F32Round(F32Mul(F32Sub(F32Div(btq, F32FromU32(btq_rounded)), F32FromInt(1)),
                           F32FromInt(10000))),
           F32FromInt(10000))

\* seg2 without the `- 1` for the sync segment
Seg2_NoSync(btq_rounded, seg1, checked) ==
    IF checked /\ U32Lt(btq_rounded, U32(seg1))
    THEN [tag |-> "panic"]
    ELSE [tag |-> "val", v |-> U32WrappingSub(btq_rounded, U32(seg1))]

\* btq_rounded - seg1 - 1 in u32: with overflow checks (a debug build) a
\* negative difference panics, without them (a release build) it wraps
Seg2(btq_rounded, seg1, checked) ==
    LET d1 == U32WrappingSub(btq_rounded, U32(seg1))
    IN  IF checked /\ (U32Lt(btq_rounded, U32(seg1)) \/ d1 = U32(0))
        THEN [tag |-> "panic"]
        ELSE [tag |-> "val", v |-> U32WrappingSub(d1, U32(1))]

\* for seg1 in min_seg1..max_seg1 { ... }
RECURSIVE SegLoop(_, _, _, _)
SegLoop(brp, btq_rounded, seg1, checked) ==
    IF seg1 >= max_seg1 THEN [tag |-> "none"]
    ELSE LET seg2 == Seg2(btq_rounded, seg1, checked)
         IN  IF seg2.tag = "panic" THEN seg2
             ELSE IF U32Lt(seg2.v, U32(min_seg2)) \/ U32Lt(U32(max_seg2), seg2.v)
                  THEN SegLoop(brp, btq_rounded, seg1 + 1, checked)
             ELSE [tag |-> "Ok",
                   bt |-> [brp |-> brp, prop_seg |-> 0, phase_seg1 |-> seg1,
                           phase_seg2 |-> seg2.v.lo, sjw |-> 1]]

\* for brp in 1..(max_brp + 1) { ... }
RECURSIVE BrpLoop(_, _, _, _)
BrpLoop(tmp, tolerance, brp, checked) ==
    IF brp > max_brp THEN [tag |-> "none"]
    ELSE LET btq         == F32Div(tmp, F32FromInt(brp))
             btq_rounded == F32ToU32(F32Round(btq))
             in_range    == U32Le(U32(4), btq_rounded) /\ U32Le(btq_rounded, U32(32))
         IN  IF in_range /\ F32Gt(F32Abs(QuantError(btq, btq_rounded)), tolerance)
             THEN BrpLoop(tmp, tolerance, brp + 1, checked)
             ELSE LET r == SegLoop(brp, btq_rounded, min_seg1, checked)
                  IN  IF r.tag = "none" THEN BrpLoop(tmp, tolerance, brp + 1, checked)
                      ELSE r

\* for tolerance in tolerances { ... }
RECURSIVE TolLoop(_, _, _, _)
TolLoop(clk, bitrate, i, checked) ==
    IF i > Len(tolerances) THEN [tag |-> "InvalidBitrate", bitrate |-> bitrate]
    ELSE LET tmp == F32Div(F32FromInt(clk), F32FromInt(bitrate))
             r   == BrpLoop(tmp, tolerances[i], 1, checked)
         IN  IF r.tag = "none" THEN TolLoop(clk, bitrate, i + 1, checked) ELSE r

\* calculate_bit_timing(clk, bitrate) for clk, bitrate < 2^31; checked says
\* whether the build has overflow checks on
calculate_bit_timing(clk, bitrate, checked) == TolLoop(clk, bitrate, 1, checked)

\* clk / bt.brp / (bt.prop_seg + bt.phase_seg1 + bt.phase_seg2 + 1)
effective_bitrate(clk, bt) ==
    (clk \div bt.brp) \div (bt.prop_seg + bt.phase_seg1 + bt.phase_seg2 + 1)

(***************************************************************************)
(* The frame codec                                                         *)
(***************************************************************************)
\* device::gsusb constants
GSUSB_EXT_FLAG == [hi |-> 2^15, lo |-> 0]
GSUSB_RTR_FLAG == [hi |-> 2^14, lo |-> 0]
GSUSB_RX_ECHO_ID == U32Max
GSUSB_FEATURE_LISTEN_ONLY == 1
GSUSB_FEATURE_LOOP_BACK == 2

\* 0x3FFF_FFFF
IdMask == [hi |-> 2^14 - 1, lo |-> Half - 1]

\* to_host_frame with the extended frame marked by the RTR flag
to_host_frame_ExtAsRtr(f) ==
    LET id1 == IF f.ext THEN U32Or(f.can_id, GSUSB_RTR_FLAG) ELSE f.can_id
        id2 == IF f.rtr THEN U32Or(id1, GSUSB_RTR_FLAG) ELSE id1
    IN  [echo_id |-> U32(1), flags |-> 0, reserved |-> 0, can_id |-> id2,
         can_dlc |-> f.can_dlc, channel |-> f.channel, data |-> f.data]

\* Frame::to_host_frame
to_host_frame(f) ==
    LET id1 == IF f.ext THEN U32Or(f.can_id, GSUSB_EXT_FLAG) ELSE f.can_id
        id2 == IF f.rtr THEN U32Or(id1, GSUSB_RTR_FLAG) ELSE id1
    IN  [echo_id |-> U32(1), flags |-> 0, reserved |-> 0, can_id |-> id2,
         can_dlc |-> f.can_dlc, channel |-> f.channel, data |-> f.data]

\* from_host_frame with the loopback test inverted
from_host_frame_EchoIsRx(hf) ==
    [can_id    |-> U32And(hf.can_id, IdMask),
     can_dlc   |-> hf.can_dlc,
     data      |-> hf.data,
     channel   |-> hf.channel,
     ext       |-> U32Lt(U32(0), U32And(hf.can_id, GSUSB_EXT_FLAG)),
     loopback  |-> hf.echo_id = GSUSB_RX_ECHO_ID,
     rtr       |-> U32Lt(U32(0), U32And(hf.can_id, GSUSB_RTR_FLAG)),
     fd        |-> FALSE,
     timestamp |-> "None"]

\* Frame::from_host_frame
from_host_frame(hf) ==
    [can_id    |-> U32And(hf.can_id, IdMask),
     can_dlc   |-> hf.can_dlc,
     data      |-> hf.data,
     channel   |-> hf.channel,
     ext       |-> U32Lt(U32(0), U32And(hf.can_id, GSUSB_EXT_FLAG)),
     loopback  |-> hf.echo_id # GSUSB_RX_ECHO_ID,
     rtr       |-> U32Lt(U32(0), U32And(hf.can_id, GSUSB_RTR_FLAG)),
     fd        |-> FALSE,
     timestamp |-> "None"]

(***************************************************************************)
(* The Interface session                                                   *)
(***************************************************************************)
\* the largest number of API calls the caller makes in a run
MaxCalls == 3
\* the largest number of frames the device delivers in a run
MaxFrames == 2

\* dev_config.icount of the device modelled: two channels
ICounts == {1}
\* bt_consts.fclk_can of the device modelled
can_clock == 24000000
\* bitrates a caller asks for: solvable; not solvable, and underflowing seg2
Bitrates == {500000, 6000000}
\* the solver's answers for the session's clock, computed once
Timings ==
    [b \in Bitrates |-> [k \in BOOLEAN |-> calculate_bit_timing(can_clock, b, k)]]

\* the i-th frame the device delivers
RxFrame(i) ==
    [echo_id  |-> IF i % 2 = 1 THEN GSUSB_RX_ECHO_ID ELSE U32(1),
     flags    |-> 0,
     reserved |-> 0,
     can_id   |-> IF i % 2 = 1 THEN U32(256 + i) ELSE U32Or(U32(256 + i), GSUSB_EXT_FLAG),
     can_dlc  |-> 1,
     channel  |-> 0,
     data     |-> <<i % 256, 0, 0, 0, 0, 0, 0, 0>>]

\* frames a caller sends
TxFrames ==
    { [can_id |-> U32(291), can_dlc |-> 2, channel |-> 0,
       data |-> <<17, 34, 0, 0, 0, 0, 0, 0>>, ext |-> x, fd |-> FALSE,
       loopback |-> FALSE, rtr |-> FALSE, timestamp |-> "None"] : x \in BOOLEAN }

VARIABLES
    channel_count,    \* Interface.channel_count (zero indexed)
    channels,         \* Interface.channels, indexed from 0
    running,          \* Interface.running
    panicked,         \* the calling thread has panicked
    ncalls,           \* how many API calls the caller has made
    budget,           \* how many API calls the caller makes in this run
    caller,           \* where the caller is inside start() or stop(), or Idle
    call,             \* the API call made by the last step, or NoCall
    result,           \* what that call returned
    cmds,             \* the Transport calls that call made, in order
    threads,          \* the rx callback threads spawned, in order
    can_rx,           \* dev.can_rx_recv: frames received and not yet taken
    delivered,        \* the frames the callbacks were invoked with, in order
    closed,           \* the channel's sending side has been dropped
    transfers,        \* start_transfers() has succeeded at least once
    arrived,          \* how many frames the device has delivered so far
    arrived_at_stop,  \* arrived, when stop() last stopped a running session
    delivered_at_stop, \* Len(delivered), when stop() last stopped a running session
    last_started,     \* the channels the last start() sent a Start mode to
    pure_in,          \* the argument of the pure function under check
    pure_out          \* its value

cfgVars == << channel_count, channels >>
callVars == << panicked, ncalls, budget, caller, call, result, cmds >>
rxVars == << threads, can_rx, delivered >>
devVars == << closed, transfers, arrived >>
pureVars == << pure_in, pure_out >>
stopVars == << arrived_at_stop, delivered_at_stop, last_started >>
vars == << cfgVars, running, callVars, rxVars, devVars, stopVars, pureVars >>

NoCall == [op |-> "none", channel |-> 0, arg |-> 0]
\* the caller is inside no call
Idle == [pc |-> "idle", issued |-> << >>]
NoFrame == [timestamp |-> "None"]

\* Channel { bitrate: 0, enabled: true, loopback: false, monitor: false }
DefaultChannel == [bitrate |-> 0, enabled |-> TRUE, loopback |-> FALSE, monitor |-> FALSE]

\* Interface::new
new(icount) ==
    /\ channel_count = icount
    /\ channels = [i \in 0..icount |-> DefaultChannel]
    /\ running = FALSE

\* Interface::channels
channels_len == channel_count + 1

SessionInit ==
    /\ \E icount \in ICounts : new(icount)
    /\ panicked = FALSE
    /\ ncalls = 0
    /\ caller = Idle
    /\ call = NoCall
    /\ result = "none"
    /\ cmds = << >>
    /\ threads = << >>
    /\ can_rx = << >>
    /\ delivered = << >>
    /\ closed = FALSE
    /\ transfers = FALSE
    /\ arrived = 0
    /\ arrived_at_stop = 0
    /\ delivered_at_stop = 0
    /\ last_started = {}

NoInput == [fn |-> "none"]
NoOutput == [tag |-> "none"]

Init == SessionInit /\ budget = MaxCalls /\ pure_in = NoInput /\ pure_out = NoOutput

\* the caller can make a call: it has not panicked and still holds the Interface
CanCall == ~panicked /\ ~closed /\ caller = Idle /\ ncalls < budget

\* the Start mode's flags without the loopback feature
ModeFlags_NoLoopback(ch) ==
    IF ch.monitor THEN GSUSB_FEATURE_LISTEN_ONLY ELSE 0

\* the Start mode's flags for a channel
ModeFlags(ch) ==
    BitOr16(IF ch.monitor THEN GSUSB_FEATURE_LISTEN_ONLY ELSE 0,
            IF ch.loopback THEN GSUSB_FEATURE_LOOP_BACK ELSE 0, 16)

\* the set_mode calls sent to every channel, enabled or not
ModeCmds_AllChannels(chs, i, start) ==
    [k \in 1..(channel_count + 1 - i) |->
        [cmd |-> "set_mode", channel |-> i + k - 1,
         mode |-> IF start THEN "Start" ELSE "Reset",
         flags |-> IF start THEN ModeFlags(chs[i + k - 1]) ELSE 0]]

\* the set_mode calls of `for (i, ch) in self.channels.iter().enumerate()`
RECURSIVE ModeCmds(_, _, _)
ModeCmds(chs, i, start) ==
    IF i > channel_count THEN << >>
    ELSE (IF chs[i].enabled
          THEN << [cmd |-> "set_mode", channel |-> i,
                   mode |-> IF start THEN "Start" ELSE "Reset",
                   flags |-> IF start THEN ModeFlags(chs[i]) ELSE 0] >>
          ELSE << >>)
         \o ModeCmds(chs, i + 1, start)

\* a step that is no API call leaves no call behind
Background ==
    /\ call' = NoCall
    /\ result' = "none"
    /\ cmds' = << >>
    /\ UNCHANGED << panicked, ncalls, budget, caller >>

\* an API call c returns r (or panics) after the Transport calls issued
Returns(c, r, issued) ==
    /\ call' = c
    /\ result' = r
    /\ cmds' = issued
    /\ panicked' = (r = "panic")
    /\ ncalls' = ncalls + 1
    /\ budget' = budget
    /\ caller' = Idle

\* the caller moves on inside start() or stop(), which has not returned yet
Proceeds(pc, issued) ==
    /\ caller' = [pc |-> pc, issued |-> issued]
    /\ call' = NoCall
    /\ result' = "none"
    /\ cmds' = << >>
    /\ UNCHANGED << panicked, ncalls, budget >>

\* the call start(rx_callback)
StartCall == [op |-> "start", channel |-> 0, arg |-> 0]

\* Interface::start, the loop `for (i, ch) in self.channels.iter().enumerate()`
\* that tells the device to go on bus; fail is the set_mode call that fails
\* (0: none does)
start_set_mode(fail) ==
    LET modes == ModeCmds(channels, 0, TRUE)
    IN  /\ CanCall
        /\ fail \in 0..Len(modes)
        /\ last_started' = { modes[k].channel : k \in 1..(IF fail = 0 THEN Len(modes)
                                                          ELSE fail) }
        /\ IF fail = 0
           THEN Proceeds("start_running", modes)
           ELSE Returns(StartCall, "panic", SubSeq(modes, 1, fail))
        /\ UNCHANGED << cfgVars, running, rxVars, devVars, arrived_at_stop,
                        delivered_at_stop, pureVars >>

\* Interface::start, `*self.running.write().unwrap() = true;`
start_running ==
    /\ caller.pc = "start_running"
    /\ running' = TRUE
    /\ Proceeds("start_spawn", caller.issued)
    /\ UNCHANGED << cfgVars, rxVars, devVars, stopVars, pureVars >>

\* Interface::start, `thread::spawn(move || { ... })`
start_spawn ==
    /\ caller.pc = "start_spawn"
    /\ threads' = Append(threads, [pc |-> "check", f |-> NoFrame])
    /\ Proceeds("start_transfers", caller.issued)
    /\ UNCHANGED << cfgVars, running, can_rx, delivered, devVars, stopVars, pureVars >>

\* Interface::start, `self.dev.start_transfers().unwrap()` called: the device
\* begins to hand over frames, or the call fails (fail = 1)
start_transfers(fail) ==
    LET issued == Append(caller.issued, [cmd |-> "start_transfers"])
    IN  /\ caller.pc = "start_transfers"
        /\ IF fail = 1
           THEN Returns(StartCall, "panic", issued) /\ UNCHANGED transfers
           ELSE Proceeds("start_return", issued) /\ transfers' = TRUE
        /\ UNCHANGED << cfgVars, running, rxVars, closed, arrived, stopVars, pureVars >>

\* Interface::start, start_transfers() has returned: `Ok(())`
start_return ==
    /\ caller.pc = "start_return"
    /\ Returns(StartCall, "Ok", caller.issued)
    /\ UNCHANGED << cfgVars, running, rxVars, devVars, stopVars, pureVars >>

\* the call stop()
StopCall == [op |-> "stop", channel |-> 0, arg |-> 0]

\* Interface::stop up to `*self.running.write().unwrap() = false;`: the Reset
\* modes, stop_transfers() and the write; fail is the Transport call that
\* fails (0: none does)
stop_halt(fail) ==
    LET modes == ModeCmds(channels, 0, FALSE)
    IN  /\ CanCall
        /\ fail \in 0..(Len(modes) + 1)
        /\ IF fail \in 1..Len(modes)
           THEN /\ Returns(StopCall, "panic", SubSeq(modes, 1, fail))
                /\ UNCHANGED << running, stopVars >>
           ELSE IF fail = Len(modes) + 1
           THEN /\ Returns(StopCall, "panic", Append(modes, [cmd |-> "stop_transfers"]))
                /\ UNCHANGED << running, stopVars >>
           ELSE /\ Proceeds("stop_return", Append(modes, [cmd |-> "stop_transfers"]))
                /\ running' = FALSE
                /\ arrived_at_stop' = IF running THEN arrived ELSE arrived_at_stop
                /\ delivered_at_stop' =
                       IF running THEN Len(delivered) ELSE delivered_at_stop
                /\ UNCHANGED last_started
        /\ UNCHANGED << cfgVars, rxVars, devVars, pureVars >>

\* Interface::stop, `Ok(())`
stop_return ==
    /\ caller.pc = "stop_return"
    /\ Returns(StopCall, "Ok", caller.issued)
    /\ UNCHANGED << cfgVars, running, rxVars, devVars, stopVars, pureVars >>

\* a call that leaves the session as it is
SessionUnchanged ==
    UNCHANGED << cfgVars, running, rxVars, devVars, stopVars, pureVars >>

\* a call that changes nothing but the channels
OnlyChannels ==
    UNCHANGED << channel_count, running, rxVars, devVars, stopVars, pureVars >>

\* the channel range check off by one
InvalidChannel_OffByOne(channel) == channel > channel_count + 1

\* `if channel > self.channel_count { return Err(Error::InvalidChannel); }`
InvalidChannel(channel) == channel > channel_count

\* the Transport's set_bit_timing always addressed to the first channel
BitTimingCmd_FirstChannel(channel, bt) ==
    [cmd |-> "set_bit_timing", channel |-> 0, bt |-> bt]

\* the Transport's set_bit_timing(channel as u16, bt)
BitTimingCmd(channel, bt) ==
    [cmd |-> "set_bit_timing", channel |-> channel % Half, bt |-> bt]

\* Interface::set_bitrate; checked says whether the build checks integer overflow
set_bitrate(channel, bitrate, checked, fail) ==
    LET c  == [op |-> "set_bitrate", channel |-> channel, arg |-> bitrate]
        bt == Timings[bitrate][checked]
    IN  /\ CanCall
        /\ IF InvalidChannel(channel)
           THEN fail = 0 /\ Returns(c, "InvalidChannel", << >>) /\ SessionUnchanged
           ELSE IF bt.tag = "panic"
           THEN fail = 0 /\ Returns(c, "panic", << >>) /\ SessionUnchanged
           ELSE IF bt.tag = "InvalidBitrate"
           THEN fail = 0 /\ Returns(c, "InvalidBitrate", << >>) /\ SessionUnchanged
           ELSE IF fail = 1
           THEN /\ Returns(c, "panic", << BitTimingCmd(channel, bt.bt) >>)
                /\ SessionUnchanged
           ELSE /\ Returns(c, "Ok", << BitTimingCmd(channel, bt.bt) >>)
                /\ channels' = [channels EXCEPT ![channel].bitrate = bitrate]
                /\ OnlyChannels

\* Interface::set_bit_timing
set_bit_timing(channel, brp, phase_seg1, phase_seg2, sjw, fail) ==
    LET c  == [op |-> "set_bit_timing", channel |-> channel, arg |-> brp]
        bt == [brp |-> brp, prop_seg |-> 0, phase_seg1 |-> phase_seg1,
               phase_seg2 |-> phase_seg2, sjw |-> sjw]
    IN  /\ CanCall
        /\ Returns(c, IF fail = 1 THEN "panic" ELSE "Ok", << BitTimingCmd(channel, bt) >>)
        /\ SessionUnchanged

\* the mode setters' body without the Running check
SetFlag_NoRunningCheck(c, channel, chs) ==
    /\ CanCall
    /\ IF InvalidChannel(channel)
       THEN Returns(c, "InvalidChannel", << >>) /\ SessionUnchanged
       ELSE Returns(c, "Ok", << >>) /\ channels' = chs /\ OnlyChannels

\* the body shared by set_monitor, set_enabled and set_loopback
SetFlag(c, channel, chs) ==
    /\ CanCall
    /\ IF InvalidChannel(channel)
       THEN Returns(c, "InvalidChannel", << >>) /\ SessionUnchanged
       ELSE IF running
       THEN Returns(c, "Running", << >>) /\ SessionUnchanged
       ELSE Returns(c, "Ok", << >>) /\ channels' = chs /\ OnlyChannels

\* Interface::set_monitor
set_monitor(channel, enabled) ==
    SetFlag([op |-> "set_monitor", channel |-> channel, arg |-> enabled], channel,
            [channels EXCEPT ![channel].monitor = enabled])

\* Interface::set_enabled
set_enabled(channel, enabled) ==
    SetFlag([op |-> "set_enabled", channel |-> channel, arg |-> enabled], channel,
            [channels EXCEPT ![channel].enabled = enabled])

\* Interface::set_loopback
set_loopback(channel, enabled) ==
    SetFlag([op |-> "set_loopback", channel |-> channel, arg |-> enabled], channel,
            [channels EXCEPT ![channel].loopback = enabled])

\* send without the NotRunning check
send_NoRunningCheck(f, fail) ==
    LET c == [op |-> "send", channel |-> 0, arg |-> f]
    IN  /\ CanCall
        /\ Returns(c, IF fail = 1 THEN "panic" ELSE "Ok",
                   << [cmd |-> "send", hf |-> to_host_frame(f)] >>)
        /\ SessionUnchanged

\* Interface::send
send(f, fail) ==
    LET c == [op |-> "send", channel |-> 0, arg |-> f]
    IN  /\ CanCall
        /\ IF ~running
           THEN fail = 0 /\ Returns(c, "NotRunning", << >>)
           ELSE Returns(c, IF fail = 1 THEN "panic" ELSE "Ok",
                        << [cmd |-> "send", hf |-> to_host_frame(f)] >>)
        /\ SessionUnchanged

(***************************************************************************)
(* The rx callback thread of start(), and the device                       *)
(***************************************************************************)
ThreadStep ==
    /\ Background
    /\ UNCHANGED << cfgVars, running, devVars, stopVars, pureVars >>

\* the loop check of a thread that does not look at the running flag
thread_check_IgnoresStop(t) ==
    /\ threads[t].pc = "check"
    /\ threads' = [threads EXCEPT ![t].pc = "recv"]
    /\ UNCHANGED << can_rx, delivered >>
    /\ ThreadStep

\* `while *running.read().unwrap()`
thread_check(t) ==
    /\ threads[t].pc = "check"
    /\ threads' = [threads EXCEPT ![t].pc = IF running THEN "recv" ELSE "done"]
    /\ UNCHANGED << can_rx, delivered >>
    /\ ThreadStep

\* `can_rx.recv()` returning Ok(hf): the frame is decoded and stamped
thread_recv(t) ==
    /\ threads[t].pc = "recv"
    /\ can_rx # << >>
    /\ threads' = [threads EXCEPT
                     ![t] = [pc |-> "callback",
                             f  |-> [from_host_frame(Head(can_rx))
                                       EXCEPT !.timestamp = "Some"]]]
    /\ can_rx' = Tail(can_rx)
    /\ UNCHANGED delivered
    /\ ThreadStep

\* a disconnected channel handed to the callback as an empty frame
thread_disconnected_Callback(t) ==
    /\ threads[t].pc = "recv"
    /\ can_rx = << >>
    /\ closed
    /\ threads' = [threads EXCEPT ![t] = [pc |-> "callback", f |-> NoFrame]]
    /\ UNCHANGED << can_rx, delivered >>
    /\ ThreadStep

\* `can_rx.recv()` returning Err(RecvError): empty and disconnected
thread_disconnected(t) ==
    /\ threads[t].pc = "recv"
    /\ can_rx = << >>
    /\ closed
    /\ threads' = [threads EXCEPT ![t].pc = "done"]
    /\ UNCHANGED << can_rx, delivered >>
    /\ ThreadStep

\* `rx_callback(f)`
thread_callback(t) ==
    /\ threads[t].pc = "callback"
    /\ delivered' = Append(delivered, threads[t].f)
    /\ threads' = [threads EXCEPT ![t] = [pc |-> "check", f |-> NoFrame]]
    /\ UNCHANGED can_rx
    /\ ThreadStep

\* the device hands a received frame to the channel
device_frame ==
    /\ ~closed
    /\ transfers
    /\ arrived < MaxFrames
    /\ arrived' = arrived + 1
    /\ can_rx' = Append(can_rx, RxFrame(arrived + 1))
    /\ Background
    /\ UNCHANGED << cfgVars, running, threads, delivered, closed, transfers,
                    stopVars, pureVars >>

\* the caller releases the Interface: the channel's sending side is dropped
teardown ==
    /\ ~closed
    /\ caller = Idle
    /\ closed' = TRUE
    /\ Background
    /\ UNCHANGED << cfgVars, running, rxVars, transfers, arrived, stopVars,
                    pureVars >>

\* the explicit timing a caller passes to set_bit_timing
CustomTiming == [brp |-> 6, phase_seg1 |-> 13, phase_seg2 |-> 2, sjw |-> 1]

Next ==
    \/ \E fail \in 0..(channel_count + 1) : start_set_mode(fail)
    \/ start_running
    \/ start_spawn
    \/ \E fail \in 0..1 : start_transfers(fail)
    \/ start_return
    \/ \E fail \in 0..(channel_count + 2) : stop_halt(fail)
    \/ stop_return
    \/ \E ch \in 0..(channel_count + 1), b \in Bitrates, k \in BOOLEAN, fail \in 0..1 :
          set_bitrate(ch, b, k, fail)
    \/ \E ch \in 0..(channel_count + 1), fail \in 0..1 :
          set_bit_timing(ch, CustomTiming.brp, CustomTiming.phase_seg1,
                         CustomTiming.phase_seg2, CustomTiming.sjw, fail)
    \/ \E ch \in 0..(channel_count + 1), b \in BOOLEAN : set_monitor(ch, b)
    \/ \E ch \in 0..(channel_count + 1), b \in BOOLEAN : set_enabled(ch, b)
    \/ \E ch \in 0..(channel_count + 1), b \in BOOLEAN : set_loopback(ch, b)
    \/ \E f \in TxFrames, fail \in 0..1 : send(f, fail)
    \/ \E t \in 1..Len(threads) : thread_check(t)
    \/ \E t \in 1..Len(threads) : thread_recv(t)
    \/ \E t \in 1..Len(threads) : thread_disconnected(t)
    \/ \E t \in 1..Len(threads) : thread_callback(t)
    \/ device_frame
    \/ teardown

Spec == Init /\ [][Next]_vars

\* a step of the t-th receive thread
ThreadRun(t) ==
    /\ t \in 1..Len(threads)
    /\ thread_check(t) \/ thread_recv(t) \/ thread_disconnected(t) \/ thread_callback(t)

\* the session's life cycle on its own: start(), stop(), the receive threads
\* and the device
LiveNext ==
    \/ \E fail \in 0..(channel_count + 1) : start_set_mode(fail)
    \/ start_running
    \/ start_spawn
    \/ \E fail \in 0..1 : start_transfers(fail)
    \/ start_return
    \/ \E fail \in 0..(channel_count + 2) : stop_halt(fail)
    \/ stop_return
    \/ \E t \in 1..Len(threads) : thread_check(t)
    \/ \E t \in 1..Len(threads) : thread_recv(t)
    \/ \E t \in 1..Len(threads) : thread_disconnected(t)
    \/ \E t \in 1..Len(threads) : thread_callback(t)
    \/ device_frame
    \/ teardown

\* with the receive threads scheduled fairly: a spawned thread that can take a
\* step eventually takes one
LiveSpec == Init /\ [][LiveNext]_vars /\ \A t \in 1..MaxCalls : WF_vars(ThreadRun(t))

(***************************************************************************)
(* The caller's configuration and life-cycle calls on their own, in longer   *)
(* sequences: the receive threads and the device take no step.              *)
(***************************************************************************)
\* the largest number of API calls the caller makes in such a run
MaxModeCalls == 4

ModeInit == SessionInit /\ budget = MaxModeCalls /\ pure_in = NoInput /\ pure_out = NoOutput

ModeNext ==
    \/ \E fail \in 0..(channel_count + 1) : start_set_mode(fail)
    \/ start_running
    \/ start_spawn
    \/ \E fail \in 0..1 : start_transfers(fail)
    \/ start_return
    \/ \E fail \in 0..(channel_count + 2) : stop_halt(fail)
    \/ stop_return
    \/ \E ch \in 0..(channel_count + 1), b \in BOOLEAN : set_monitor(ch, b)
    \/ \E ch \in 0..(channel_count + 1), b \in BOOLEAN : set_enabled(ch, b)
    \/ \E ch \in 0..(channel_count + 1), b \in BOOLEAN : set_loopback(ch, b)

ModeSpec == ModeInit /\ [][ModeNext]_vars

(***************************************************************************)
(* The codec on its own: a frame is encoded and the wire frame decoded     *)
(* again, or a wire frame from the device is decoded.                      *)
(***************************************************************************)
\* arbitration ids: 0, 1, 0x7FF, 0x1FFFFFFF, 0x12345678, 0x3FFFFFFF, and three
\* that do not fit 30 bits: 0x40000000, 0x80000001, 0xFFFFFFFF
CodecIds ==
    { U32(0), U32(1), U32(2047), [hi |-> 8191, lo |-> 65535], [hi |-> 4660, lo |-> 22136],
      [hi |-> 16383, lo |-> 65535], [hi |-> 16384, lo |-> 0], [hi |-> 32768, lo |-> 1],
      U32Max }

CodecData == { <<0, 0, 0, 0, 0, 0, 0, 0>>, <<1, 2, 3, 4, 5, 6, 7, 255>> }

CodecFrames ==
    { [can_id |-> id, can_dlc |-> dlc, channel |-> ch, data |-> d, ext |-> x, fd |-> fd,
       loopback |-> FALSE, rtr |-> r, timestamp |-> "None"] :
        id \in CodecIds, dlc \in {0, 8}, ch \in {0, 1}, d \in CodecData,
        x \in BOOLEAN, fd \in BOOLEAN, r \in BOOLEAN }

\* echo ids: the receive sentinel, 0, 1, 0xFFFFFFFE, 0x0000FFFF, 0xFFFF0000
CodecEchoIds ==
    { GSUSB_RX_ECHO_ID, U32(0), U32(1), [hi |-> 65535, lo |-> 65534],
      [hi |-> 0, lo |-> 65535], [hi |-> 65535, lo |-> 0] }

CodecHostFrames ==
    { [echo_id |-> e, flags |-> fl, reserved |-> 0, can_id |-> id, can_dlc |-> 8,
       channel |-> 1, data |-> d] :
        e \in CodecEchoIds, fl \in {0, 255}, id \in CodecIds, d \in CodecData }

CodecInit ==
    /\ SessionInit
    /\ pure_in \in { [fn |-> "to_host_frame", f |-> f] : f \in CodecFrames }
                   \cup { [fn |-> "from_host_frame", hf |-> hf] : hf \in CodecHostFrames }
    /\ pure_out = NoOutput
    /\ budget = MaxCalls

SessionIdle == UNCHANGED << cfgVars, running, callVars, rxVars, devVars, stopVars >>

\* f.to_host_frame()
codec_encode ==
    /\ pure_in.fn = "to_host_frame"
    /\ pure_out = NoOutput
    /\ pure_out' = [tag |-> "encoded", hf |-> to_host_frame(pure_in.f)]
    /\ UNCHANGED pure_in
    /\ SessionIdle

\* Frame::from_host_frame(hf), of the device's frame or of the frame just encoded
codec_decode ==
    /\ \/ /\ pure_in.fn = "from_host_frame"
          /\ pure_out = NoOutput
          /\ pure_out' = [tag |-> "decoded", hf |-> pure_in.hf,
                          f |-> from_host_frame(pure_in.hf)]
       \/ /\ pure_out.tag = "encoded"
          /\ pure_out' = [tag |-> "decoded", hf |-> pure_out.hf,
                          f |-> from_host_frame(pure_out.hf)]
    /\ UNCHANGED pure_in
    /\ SessionIdle

CodecNext == codec_encode \/ codec_decode

CodecSpec == CodecInit /\ [][CodecNext]_vars

(***************************************************************************)
(* The solver on its own                                                   *)
(***************************************************************************)
TimingClocks == { 24000000, 48000000, 16000000, 8000000, 80000000, 36000000 }

TimingBitrates ==
    { 1000000, 500000, 250000, 125000, 33333, 6000000, 4000000, 3000000, 800000,
      100000, 83333, 50000, 20000, 10000, 5000, 502000, 1003000, 7, 1, 0 }

TimingInit ==
    /\ SessionInit
    /\ pure_in \in { [fn |-> "calculate_bit_timing", clk |-> c, bitrate |-> b,
                      checked |-> k] :
                        c \in TimingClocks, b \in TimingBitrates, k \in BOOLEAN }
    /\ pure_out = NoOutput
    /\ budget = MaxCalls

\* calculate_bit_timing(clk, bitrate)
timing_solve ==
    /\ pure_in.fn = "calculate_bit_timing"
    /\ pure_out = NoOutput
    /\ pure_out' = calculate_bit_timing(pure_in.clk, pure_in.bitrate, pure_in.checked)
    /\ UNCHANGED pure_in
    /\ SessionIdle

TimingNext == timing_solve

TimingSpec == TimingInit /\ [][TimingNext]_vars

(***************************************************************************)
(* Properties                                                              *)
(***************************************************************************)
\* the step is the API call c
Calls(c) == ncalls' = ncalls + 1 /\ call' = c

\* a receive thread that can still invoke its callback
Live(t) == threads[t].pc # "done"

\* C1: each start() launches exactly one receive thread, and the session never
\* has more than one live receive thread (one that can still invoke its
\* callback) at the same time, start() while Running and start() -> stop() ->
\* start() included.
C1_OneLiveDispatcher == Cardinality({ t \in 1..Len(threads) : Live(t) }) <= 1

\* what the callback is invoked with for the i-th frame the device delivered
Stamped(i) == [from_host_frame(RxFrame(i)) EXCEPT !.timestamp = "Some"]

\* C2: after one start(), once stop() has returned and the receive thread has
\* ended, the callback has been invoked once for every frame that arrived
\* before stop(), in arrival order.
C2_AllDeliveredInOrder ==
    (Len(threads) = 1 /\ ~running /\ caller = Idle /\ ~Live(1))
        => /\ Len(delivered) >= arrived_at_stop
           /\ \A i \in 1..arrived_at_stop : delivered[i] = Stamped(i)

ModeSetters == { "set_monitor", "set_enabled", "set_loopback" }

\* the channel entry with the field a mode setter names set to b
WithField(ch, op, b) ==
    [bitrate  |-> ch.bitrate,
     enabled  |-> IF op = "set_enabled" THEN b ELSE ch.enabled,
     loopback |-> IF op = "set_loopback" THEN b ELSE ch.loopback,
     monitor  |-> IF op = "set_monitor" THEN b ELSE ch.monitor]

\* C3: set_monitor, set_enabled and set_loopback with a valid channel index:
\* while Running each fails with Running and leaves every channel entry
\* unchanged; while Stopped each succeeds and changes only the named field of
\* the named channel, all other fields, all other channels and the running flag
\* staying as they were.
C3_ModeSetters ==
    [][ \A op \in ModeSetters, ch \in 0..channel_count, b \in BOOLEAN :
          Calls([op |-> op, channel |-> ch, arg |-> b])
            => /\ running' = running
               /\ channel_count' = channel_count
               /\ IF running
                  THEN result' = "Running" /\ channels' = channels
                  ELSE /\ result' = "Ok"
                       /\ channels' = [i \in 0..channel_count |->
                                         IF i = ch THEN WithField(channels[i], op, b)
                                         ELSE channels[i]] ]_vars

\* C3 witness: set_loopback on the second channel refused while Running, after
\* set_monitor changed the first channel while Stopped
C3_Witness ==
    /\ call.op = "set_loopback"
    /\ call.channel = 1
    /\ result = "Running"
    /\ running
    /\ channels[0].monitor

\* C4: send(frame) while Stopped fails with NotRunning and hands no wire frame
\* to the Transport; while Running it hands exactly one wire frame, the encoding
\* of the frame, to the Transport; either way the running flag and the channel
\* entries stay as they were.
C4_Send ==
    [][ \A f \in TxFrames :
          Calls([op |-> "send", channel |-> 0, arg |-> f])
            => /\ running' = running
               /\ channels' = channels
               /\ IF running
                  THEN cmds' = << [cmd |-> "send", hf |-> to_host_frame(f)] >>
                  ELSE result' = "NotRunning" /\ cmds' = << >> ]_vars

\* C4 witness: a send refused after a start() and a stop()
C4_Witness ==
    /\ call.op = "send"
    /\ result = "NotRunning"
    /\ Len(threads) = 1
    /\ cmds = << >>

ChannelSetters == ModeSetters \cup { "set_bitrate", "set_bit_timing" }

\* C5: every per-channel setter called with a channel index at or beyond the
\* channel count (what channels() returns) fails with InvalidChannel, makes no
\* Transport call and changes no configuration; called with a valid index, the
\* session Stopped and the bitrate solvable, it succeeds (unless the Transport
\* call itself fails).
C5_ChannelBound ==
    [][ \A op \in ChannelSetters :
          (ncalls' = ncalls + 1 /\ call'.op = op)
            => IF call'.channel >= channels_len
               THEN result' = "InvalidChannel" /\ cmds' = << >> /\ channels' = channels
               ELSE (~running /\ (op = "set_bitrate" => Timings[call'.arg][TRUE].tag = "Ok"))
                       => result' \in { "Ok", "panic" } ]_vars

\* C6: a Transport call failing inside start(), stop() or send() comes back to
\* the caller as a DeviceError result; the calling thread never panics.
C6_NoPanic == call.op \in { "start", "stop", "send" } => result # "panic"

Bit31(u) == u.hi >= 2^15
Bit30(u) == (u.hi \div 2^14) % 2 = 1
Low30(u) == [hi |-> u.hi % 2^14, lo |-> u.lo]

\* C7: for every frame whose arbitration id fits the low 30 bits, the encoded
\* wire id has bit 31 set iff extended and bit 30 set iff rtr, its low 30 bits
\* are the frame's id, and decoding the wire frame gives back id, dlc, channel,
\* data, extended and rtr.
C7_RoundTrip ==
    (pure_in.fn = "to_host_frame" /\ Low30(pure_in.f.can_id) = pure_in.f.can_id
       /\ pure_out # NoOutput)
        => /\ Bit31(pure_out.hf.can_id) = pure_in.f.ext
           /\ Bit30(pure_out.hf.can_id) = pure_in.f.rtr
           /\ Low30(pure_out.hf.can_id) = pure_in.f.can_id
           /\ pure_out.tag = "decoded"
                => /\ pure_out.f.can_id = pure_in.f.can_id
                   /\ pure_out.f.can_dlc = pure_in.f.can_dlc
                   /\ pure_out.f.channel = pure_in.f.channel
                   /\ pure_out.f.data = pure_in.f.data
                   /\ pure_out.f.ext = pure_in.f.ext
                   /\ pure_out.f.rtr = pure_in.f.rtr

\* C7 witness: an extended remote frame with the largest 30-bit id, decoded
C7_Witness ==
    /\ pure_in.fn = "to_host_frame"
    /\ pure_in.f.can_id = [hi |-> 16383, lo |-> 65535]
    /\ pure_in.f.ext
    /\ pure_in.f.rtr
    /\ pure_out.tag = "decoded"
    /\ pure_out.hf.can_id = U32Max

\* C8: a wire frame decodes to loopback = false if its echo id is the receive
\* sentinel and to loopback = true otherwise; encode writes an echo id that is
\* not the sentinel, so an encoded frame decodes to loopback = true; decode
\* always reports fd = false.
C8_Loopback ==
    /\ pure_out.tag = "decoded"
         => /\ pure_out.f.loopback = (pure_out.hf.echo_id # U32Max)
            /\ pure_out.f.fd = FALSE
            /\ pure_in.fn = "to_host_frame" => pure_out.f.loopback
    /\ pure_out.tag = "encoded" => pure_out.hf.echo_id # U32Max

\* C8 witness: a device frame carrying the sentinel, decoded
C8_Witness ==
    /\ pure_in.fn = "from_host_frame"
    /\ pure_in.hf.echo_id = U32Max
    /\ pure_out.tag = "decoded"
    /\ ~pure_out.f.loopback

TestBitrates == { 1000000, 500000, 250000, 125000, 33333 }

\* clock / (prescaler * quanta per bit)
Effective(clk, bt) ==
    clk \div (bt.brp * (bt.prop_seg + bt.phase_seg1 + bt.phase_seg2 + 1))

\* |a - b|
Dist(a, b) == IF a < b THEN b - a ELSE a - b

\* C9: for a 24 MHz clock and each of the bitrates 1000000, 500000, 250000,
\* 125000 and 33333 the solver succeeds, and the effective bitrate of its
\* timing is within 0.5% of the target.
C9_TestBitrates ==
    (pure_in.fn = "calculate_bit_timing" /\ pure_in.clk = 24000000
       /\ pure_in.bitrate \in TestBitrates /\ pure_out # NoOutput)
        => /\ pure_out.tag = "Ok"
           /\ 200 * Dist(Effective(pure_in.clk, pure_out.bt), pure_in.bitrate)
                <= pure_in.bitrate
           /\ effective_bitrate(pure_in.clk, pure_out.bt)
                = Effective(pure_in.clk, pure_out.bt)

\* C9 witness: 33333 bit/s solved, with a prescaler above 1
C9_Witness ==
    /\ pure_in.fn = "calculate_bit_timing"
    /\ pure_in.clk = 24000000
    /\ pure_in.bitrate = 33333
    /\ pure_out.tag = "Ok"
    /\ pure_out.bt.brp > 1

\* the rounded quanta per bit the solver computes for a prescaler
RoundedQuanta(clk, bitrate, brp) ==
    F32ToU32(F32Round(F32Div(F32Div(F32FromInt(clk), F32FromInt(bitrate)),
                             F32FromInt(brp))))

\* C10: every timing the solver returns has prescaler in 1..32, prop_seg 0,
\* sjw 1, phase_seg1 in 3..17, phase_seg2 in 2..8 and quanta per bit in 4..32,
\* and the quanta per bit are the rounded quanta of the returned prescaler: a
\* rounded quanta value outside 4..32 never gives a solution.
C10_Admissible ==
    (pure_in.fn = "calculate_bit_timing" /\ pure_out.tag = "Ok")
        => LET bt == pure_out.bt
               q  == bt.prop_seg + bt.phase_seg1 + bt.phase_seg2 + 1
           IN  /\ bt.brp \in 1..32
               /\ bt.prop_seg = 0
               /\ bt.sjw = 1
               /\ bt.phase_seg1 \in 3..17
               /\ bt.phase_seg2 \in 2..8
               /\ q \in 4..32
               /\ RoundedQuanta(pure_in.clk, pure_in.bitrate, bt.brp) = U32(q)

\* C10 witness: a solution found with phase_seg1 above its minimum for a
\* bitrate whose first prescalers give more than 32 quanta
C10_Witness ==
    /\ pure_in.fn = "calculate_bit_timing"
    /\ pure_in.bitrate = 10000
    /\ pure_out.tag = "Ok"
    /\ pure_out.bt.phase_seg1 > 3


\* C11: the solver is total: for every clock and bitrate it returns a timing or
\* fails with InvalidBitrate carrying the requested bitrate; the u32 subtraction
\* btq_rounded - seg1 - 1 never underflows and the solver never aborts (in a
\* build with overflow checks an underflow is an abort, so there the result
\* is never a panic).
C11_Total ==
    (pure_in.fn = "calculate_bit_timing" /\ pure_out # NoOutput)
        => /\ pure_out.tag \in { "Ok", "InvalidBitrate" }
           /\ pure_out.tag = "InvalidBitrate" => pure_out.bitrate = pure_in.bitrate

\* the channels with enabled = true, in index order
EnabledChannels(chs) ==
    SelectSeq([k \in 1..(channel_count + 1) |-> k - 1], LAMBDA i : chs[i].enabled)

\* the mode command is addressed to channel i, has mode m, and its flags hold
\* ListenOnly iff the channel's monitor flag is set and LoopBack iff its
\* loopback flag is set
IsStartFor(cmd, i, ch) ==
    /\ cmd.cmd = "set_mode"
    /\ cmd.channel = i
    /\ cmd.mode = "Start"
    /\ (BitAnd16(cmd.flags, GSUSB_FEATURE_LISTEN_ONLY, 16) # 0) = ch.monitor
    /\ (BitAnd16(cmd.flags, GSUSB_FEATURE_LOOP_BACK, 16) # 0) = ch.loopback

\* the caller is inside start()
InStart(c) == c.pc \in { "start_running", "start_spawn", "start_transfers", "start_return" }

\* C12: start() issues one Start mode command to each enabled channel and to no
\* disabled one, in channel order, with ListenOnly iff monitor and LoopBack iff
\* loopback; only after all of them is running set to true (a mode command
\* that fails leaves running and the threads as they were), then the receive
\* thread is spawned, then the Transport is told to start transfers, and then
\* start() returns; the channel entries stay as they were.
C12_Start ==
    [][ LET en     == EnabledChannels(channels)
            starts == IF InStart(caller') THEN caller'.issued ELSE cmds'
        IN  \* the mode commands
            /\ (caller = Idle /\ (InStart(caller') \/ Calls(StartCall)))
                 => /\ Len(starts) <= Len(en)
                    /\ \A k \in 1..Len(starts) :
                         IsStartFor(starts[k], en[k], channels[en[k]])
                    /\ IF InStart(caller')
                       THEN caller'.pc = "start_running" /\ Len(starts) = Len(en)
                       ELSE result' = "panic" /\ Len(starts) >= 1
                    /\ running' = running
                    /\ threads' = threads
            \* then the running flag
            /\ (running' /\ ~running) => caller.pc = "start_running"
            /\ (caller.pc = "start_running" /\ caller' # caller)
                 => /\ running'
                    /\ threads' = threads
                    /\ caller' = [pc |-> "start_spawn", issued |-> caller.issued]
            \* then the receive thread
            /\ threads' # threads /\ Len(threads') # Len(threads)
                 => caller.pc = "start_spawn"
            /\ (caller.pc = "start_spawn" /\ caller' # caller)
                 => /\ running /\ running'
                    /\ Len(threads') = Len(threads) + 1
                    /\ SubSeq(threads', 1, Len(threads)) = threads
                    /\ threads'[Len(threads')].pc = "check"
                    /\ caller' = [pc |-> "start_transfers", issued |-> caller.issued]
            \* then the transfers
            /\ (caller.pc = "start_transfers" /\ caller' # caller)
                 => LET all == Append(caller.issued, [cmd |-> "start_transfers"])
                    IN  /\ running /\ running'
                        /\ Len(threads) >= 1
                        /\ \/ caller' = [pc |-> "start_return", issued |-> all]
                           \/ /\ Calls(StartCall)
                              /\ result' = "panic"
                              /\ cmds' = all
            \* then the return
            /\ (caller.pc = "start_return" /\ caller' # caller)
                 => /\ Calls(StartCall)
                    /\ result' = "Ok"
                    /\ running'
                    /\ Len(cmds') = Len(en) + 1
                    /\ \A k \in 1..Len(en) : IsStartFor(cmds'[k], en[k], channels[en[k]])
                    /\ cmds'[Len(en) + 1] = [cmd |-> "start_transfers"]
            /\ (Calls(StartCall) /\ result' = "Ok") => caller.pc = "start_return"
            /\ (InStart(caller) \/ InStart(caller')) => channels' = channels ]_vars

\* C12 witness: start() succeeded with the first channel in monitor mode and
\* the second disabled: one Start command, with ListenOnly, then the transfers
C12_Witness ==
    /\ call.op = "start"
    /\ result = "Ok"
    /\ channels[0].monitor
    /\ ~channels[1].enabled
    /\ Len(cmds) = 2
    /\ cmds[1].channel = 0
    /\ cmds[1].flags = GSUSB_FEATURE_LISTEN_ONLY
    /\ running

\* the Reset mode commands for the enabled channels, then stop_transfers
IsStopOf(cs, chs) ==
    LET en == EnabledChannels(chs)
    IN  /\ Len(cs) = Len(en) + 1
        /\ \A k \in 1..Len(en) :
             cs[k] = [cmd |-> "set_mode", channel |-> en[k], mode |-> "Reset", flags |-> 0]
        /\ cs[Len(en) + 1] = [cmd |-> "stop_transfers"]

\* C13: stop() issues a Reset mode command to exactly the enabled channels,
\* then tells the Transport to stop transfers, then sets running to false, and
\* leaves the channel entries as they were; after a stop() that succeeded the
\* session is Stopped until the next start(): running stays false, send fails
\* with NotRunning and the mode setters are accepted.
C13_Stop ==
    [][ /\ Calls(StopCall)
          => LET en == EnabledChannels(channels)
                 n  == Len(cmds')
             IN  /\ channels' = channels
                 /\ IF result' = "Ok"
                    THEN IsStopOf(cmds', channels) /\ ~running /\ ~running'
                    ELSE /\ result' = "panic"
                         /\ running' = running
                         /\ n \in 1..(Len(en) + 1)
                         /\ \A k \in 1..n :
                              IF k <= Len(en)
                              THEN cmds'[k] = [cmd |-> "set_mode", channel |-> en[k],
                                               mode |-> "Reset", flags |-> 0]
                              ELSE cmds'[k] = [cmd |-> "stop_transfers"]
        \* running is cleared only after the Reset modes and stop_transfers
        /\ (running /\ ~running')
              => /\ caller = Idle
                 /\ caller'.pc = "stop_return"
                 /\ IsStopOf(caller'.issued, channels)
        /\ (caller' # caller /\ caller'.pc = "stop_return")
              => ~running' /\ channels' = channels
        /\ (caller.pc = "stop_return" /\ caller' # caller)
              => Calls(StopCall) /\ result' = "Ok" /\ cmds' = caller.issued
        \* Stopped until the next start()
        /\ (~running /\ running') => caller.pc = "start_running"
        /\ (~running /\ ncalls' = ncalls + 1 /\ call'.op = "send")
              => result' = "NotRunning"
        /\ (~running /\ ncalls' = ncalls + 1 /\ call'.op \in ModeSetters
              /\ call'.channel < channels_len)
              => result' = "Ok" ]_vars

\* C13 witness: stop() succeeded on a Running session whose second channel is
\* disabled: one Reset command, to the first channel, then the transfers stop
C13_Witness ==
    /\ call.op = "stop"
    /\ result = "Ok"
    /\ Len(threads) = 1
    /\ ~channels[1].enabled
    /\ cmds = << [cmd |-> "set_mode", channel |-> 0, mode |-> "Reset", flags |-> 0],
                 [cmd |-> "stop_transfers"] >>
    /\ ~running

\* C14: set_bitrate with a valid channel is accepted Stopped and Running alike
\* and never changes the running flag; when it succeeds exactly one bit-timing
\* command, carrying the solver's timing for the session's clock, went to the
\* Transport for that channel and the channel's stored bitrate is the requested
\* one, every other field and channel as before; when the solver fails with
\* InvalidBitrate no Transport command went out and the channels are unchanged.
C14_SetBitrate ==
    [][ \A ch \in 0..channel_count, b \in Bitrates :
          Calls([op |-> "set_bitrate", channel |-> ch, arg |-> b])
            => LET bt == Timings[b][FALSE]
               IN  /\ running' = running
                   /\ result' \in { "Ok", "InvalidBitrate", "panic" }
                   /\ result' = "Ok"
                        => /\ bt.tag = "Ok"
                           /\ cmds' = << [cmd |-> "set_bit_timing", channel |-> ch,
                                          bt |-> bt.bt] >>
                           /\ channels' = [i \in 0..channel_count |->
                                   IF i = ch
                                   THEN [bitrate  |-> b,
                                         enabled  |-> channels[i].enabled,
                                         loopback |-> channels[i].loopback,
                                         monitor  |-> channels[i].monitor]
                                   ELSE channels[i]]
                   /\ result' = "InvalidBitrate"
                        => /\ bt.tag = "InvalidBitrate"
                           /\ cmds' = << >>
                           /\ channels' = channels
                   /\ result' = "panic" => channels' = channels ]_vars

\* C14 witness: set_bitrate on the second channel succeeded while Running
C14_Witness ==
    /\ call = [op |-> "set_bitrate", channel |-> 1, arg |-> 500000]
    /\ result = "Ok"
    /\ running
    /\ channels[1].bitrate = 500000
    /\ channels[0].bitrate = 0
    /\ Len(cmds) = 1
    /\ cmds[1].channel = 1

\* the second case of C14: the solver refused the bitrate
C14_WitnessInvalid ==
    /\ call.op = "set_bitrate"
    /\ result = "InvalidBitrate"
    /\ cmds = << >>

\* the frames the device has delivered so far, decoded and stamped
ArrivedFrames == { Stamped(i) : i \in 1..arrived }

\* C15: a receive thread told that the channel is disconnected ends without
\* invoking the callback, without changing the running flag and without an
\* error reaching the caller, and a thread that has ended never runs again;
\* the callback is invoked only with frames taken from the channel, each one
\* decoded, carrying a timestamp, and handed over once.
C15_Closure ==
    /\ [](/\ \A k \in 1..Len(delivered) :
               /\ delivered[k] \in ArrivedFrames
               /\ delivered[k].timestamp = "Some"
          /\ \A j, k \in 1..Len(delivered) : delivered[j] = delivered[k] => j = k)
    /\ [][ /\ \A t \in 1..Len(threads) :
                /\ (threads[t].pc = "recv" /\ threads'[t].pc = "done")
                     => /\ closed /\ can_rx = << >>
                        /\ delivered' = delivered
                        /\ running' = running
                        /\ result' = "none" /\ panicked' = panicked
                /\ threads[t].pc = "done" => threads'[t].pc = "done"
           /\ delivered' # delivered
                => \E t \in 1..Len(threads) :
                     /\ threads[t].pc = "callback"
                     /\ threads[t].f \in ArrivedFrames
                     /\ delivered' = Append(delivered, threads[t].f)
                     /\ threads'[t].pc = "check" ]_vars

\* C15 witness: the only receive thread ended on the disconnected channel, the
\* session still Running, after its callback was invoked for one frame
C15_Witness ==
    /\ Len(threads) = 1
    /\ threads[1].pc = "done"
    /\ running
    /\ closed
    /\ Len(delivered) = 1

\* C16: a channel entry (bitrate, enabled, loopback, monitor) changes only as
\* the effect of a setter called while the session is Stopped: no step changes
\* one while the session is Running, and start(), stop(), send() and the
\* receive threads never change one.
C16_StoppedOnly ==
    [][ channels' # channels
          => /\ ~running
             /\ ncalls' = ncalls + 1
             /\ call'.op \in ChannelSetters
             /\ result' = "Ok" ]_vars

\* C17: cooperative shutdown. Once stop() has set running to false, and with
\* no later start(), the receive thread invokes its callback at most once more
\* and ends at its next loop check; a thread leaves a blocking receive only for
\* a frame or a disconnected channel, so with neither it stays blocked; and,
\* the thread being scheduled fairly, if a frame is there for it or the channel
\* is disconnected it eventually ends.
C17_Shutdown ==
    /\ []((Len(threads) = 1 /\ ~running) => Len(delivered) <= delivered_at_stop + 1)
    /\ [][ \A t \in 1..Len(threads) :
             /\ (~running /\ threads[t].pc = "check" /\ threads'[t].pc # "check")
                  => threads'[t].pc = "done"
             /\ (threads[t].pc = "recv" /\ threads'[t].pc # "recv")
                  => can_rx # << >> \/ closed ]_vars
    /\ (Len(threads) = 1 /\ ~running /\ (can_rx # << >> \/ closed))
          ~> (running \/ Len(threads) > 1
                \/ (Len(threads) = 1 /\ threads[1].pc = "done"))

\* C17 witness: the thread, blocked in its receive when stop() returned, was
\* woken by a frame that arrived later, invoked its callback for it and ended
C17_Witness ==
    /\ Len(threads) = 1
    /\ ~running
    /\ threads[1].pc = "done"
    /\ arrived_at_stop = 0
    /\ delivered_at_stop = 0
    /\ delivered = << Stamped(1) >>
    /\ ~closed

\* the other outcome of C17: stopped, nothing to receive, the channel still
\* connected, and the thread blocked in its receive
C17_WitnessBlocked ==
    /\ Len(threads) = 1
    /\ ~running
    /\ threads[1].pc = "recv"
    /\ can_rx = << >>
    /\ ~closed
    /\ arrived = MaxFrames

\* the setters that check the channel index
RangeCheckingSetters == ModeSetters \cup { "set_bitrate" }

\* C18: after construction and after any sequence of operations the channels
\* array has exactly channel_count + 1 entries, indexed from 0, which is what
\* channels() returns; they start as {bitrate 0, enabled, no loopback, no
\* monitor}; and every channel index a range-checking setter accepts is an
\* index into the array.
C18_ChannelArray ==
    /\ [](/\ DOMAIN channels = 0..channel_count
          /\ Cardinality(DOMAIN channels) = channels_len
          /\ ncalls = 0
               => \A i \in DOMAIN channels :
                    channels[i] = [bitrate |-> 0, enabled |-> TRUE,
                                   loopback |-> FALSE, monitor |-> FALSE])
    /\ [][ (ncalls' = ncalls + 1 /\ call'.op \in RangeCheckingSetters
              /\ result' # "InvalidChannel")
             => call'.channel \in DOMAIN channels ]_vars

\* C18 witness: a setter accepted the last valid index, channel_count, and
\* wrote that entry
C18_Witness ==
    /\ call.op = "set_loopback"
    /\ call.channel = channel_count
    /\ result = "Ok"
    /\ channels[channel_count].loopback
    /\ channels_len = 2

\* the channels a call's mode commands went to
ModeTargets(cs) == { cs[k].channel : k \in { j \in 1..Len(cs) : cs[j].cmd = "set_mode" } }

\* C19 as stated: in every stop() after a start(), the channels that receive a
\* Reset mode command are the channels that received a Start mode command in
\* the most recent start().
C19_ResetMatchesStart ==
    [][ (caller = Idle /\ caller'.pc = "stop_return" /\ Len(threads) > 0)
          => ModeTargets(caller'.issued) = last_started ]_vars

\* C19 amended: in a stop() of a Running session the channels that receive a
\* Reset mode command are the channels that received a Start mode command in
\* the most recent start(), so no channel put on the bus by start() is left
\* without a Reset by the stop() that ends the Running state; no enabled flag
\* changes while Running.
C19_RunningStop ==
    [][ /\ (caller = Idle /\ caller'.pc = "stop_return" /\ running)
             => /\ ModeTargets(caller'.issued) = last_started
                /\ \A k \in 1..Len(caller'.issued) :
                     caller'.issued[k].cmd = "set_mode"
                        => caller'.issued[k].mode = "Reset"
        /\ (running /\ ~running') => caller'.pc = "stop_return"
        /\ (running /\ running')
             => \A i \in 0..channel_count : channels'[i].enabled = channels[i].enabled
      ]_vars

\* C19 witness: a Running session started with the second channel disabled
\* was stopped: Start and Reset both went to the first channel only
C19_Witness ==
    /\ call.op = "stop"
    /\ result = "Ok"
    /\ ~running
    /\ last_started = {0}
    /\ ModeTargets(cmds) = {0}
    /\ ncalls = 3

\* a split of q quanta into sync segment, phase_seg1 in 3..17 and phase_seg2
\* in 2..8 exists
Splittable(q) == \E s1 \in 3..17, s2 \in 2..8 : q = s1 + s2 + 1

\* clk = bitrate * p * q for a prescaler p in 1..32 and a splittable q
ExactlyDivisible(clk, bitrate) ==
    /\ bitrate > 0
    /\ clk % bitrate = 0
    /\ \E p \in 1..32 : (clk \div bitrate) % p = 0 /\ Splittable((clk \div bitrate) \div p)

\* (brp, seg1) is admissible at the i-th tolerance: the rounded quanta, when in
\* 4..32, are within the tolerance, and phase_seg2 is in 2..8
AdmissibleAt(clk, bitrate, i, brp, seg1) ==
    LET btq == F32Div(F32Div(F32FromInt(clk), F32FromInt(bitrate)), F32FromInt(brp))
        q   == RoundedQuanta(clk, bitrate, brp)
    IN  /\ q.hi = 0
        /\ q.lo \in (seg1 + 1 + 2)..(seg1 + 1 + 8)
        /\ q.lo \in 4..32 => ~F32Gt(F32Abs(QuantError(btq, q)), tolerances[i])

\* C20: the timing returned is the first admissible candidate in the order
\* tolerance (0%, 0.1%, 0.5%), then prescaler 1..32, then phase_seg1 3..17; and
\* whenever clk = bitrate * p * q for a prescaler p in 1..32 and a quanta count
\* q that splits admissibly, the solver succeeds and its timing is exact:
\* clk = bitrate * brp * (1 + phase_seg1 + phase_seg2).
C20_ExactFirst ==
    (pure_in.fn = "calculate_bit_timing" /\ pure_out # NoOutput)
        => LET clk == pure_in.clk
               b   == pure_in.bitrate
           IN  /\ pure_out.tag = "Ok"
                    => \E i \in 1..3 :
                         /\ AdmissibleAt(clk, b, i, pure_out.bt.brp, pure_out.bt.phase_seg1)
                         /\ \A j \in 1..i, p \in 1..32, s \in 3..17 :
                              (j < i \/ p < pure_out.bt.brp
                                 \/ (p = pure_out.bt.brp /\ s < pure_out.bt.phase_seg1))
                                => ~AdmissibleAt(clk, b, j, p, s)
               /\ ExactlyDivisible(clk, b)
                    => /\ pure_out.tag = "Ok"
                       /\ clk % b = 0
                       /\ clk \div b
                            = pure_out.bt.brp
                                * (1 + pure_out.bt.phase_seg1 + pure_out.bt.phase_seg2)
                       /\ effective_bitrate(clk, pure_out.bt) = b

\* C20 witness: 125000 bit/s from 48 MHz is exact with prescaler 16 and 24
\* quanta, which the solver returns although prescaler 15 gives 26 quanta
\* (25.6 rounded) with an admissible split
C20_Witness ==
    /\ pure_in.fn = "calculate_bit_timing"
    /\ pure_in.clk = 48000000
    /\ pure_in.bitrate = 125000
    /\ pure_out.tag = "Ok"
    /\ pure_out.bt.brp = 16
    /\ RoundedQuanta(48000000, 125000, 15) = U32(26)

=============================================================================
